---- MODULE Spec2Model ----
(***************************************************************************)
(* Model of src/lstm/lstm.py: the standard and peephole LSTM cells, the    *)
(* sequence scan, the batched scan, the loss, the gradient call and the    *)
(* model constructor.                                                      *)
(*                                                                         *)
(* Numbers are fixed-point: the integer n stands for n / One.  A column    *)
(* vector (n x 1 array) is a sequence of n numbers, a matrix a sequence    *)
(* of rows.  An array value computed by the program is a record            *)
(* [ok, v]: ok = FALSE stands for the exception a shape mismatch raises,   *)
(* which propagates through everything computed from it.                   *)
(***************************************************************************)
EXTENDS Integers, Sequences, FiniteSets, TLC

VARIABLES
    variant,    \* the class whose methods are called: "vanilla" (LSTM) or "peephole" (PeepholeLSTM)
    archi,      \* LSTMArchiParams: [input_dim, hidden_dim, output_dim]
    params,     \* LSTMParams: [wf, uf, bf, wi, ui, bi, wc, uc, bc, wo, uo, bo, wout]
    x_cur, h_prev, c_prev, c_alt,   \* arguments of a direct Cell Step call
    step,       \* what the Cell Step call returned
    probe,      \* what PeepholeLSTM.h_cur returned when given c_alt as c_t
    x_batch, y_batch,               \* arguments of the batch calls
    op,         \* the batch-level call in progress and its position
    lanes,      \* the vmapped scans of the call in progress, one per sequence
    full,       \* results of forward_full called alone on each sequence
    ret,        \* what the batch-level call returned
    args,       \* arguments of LSTMModel.init_params
    pc,         \* position inside LSTMModel.init_params
    layers,     \* the layers list being built
    rng_calls,  \* number of rng_normal calls made so far
    outcome     \* what LSTMModel.init_params returned or raised

vars == <<variant, archi, params, x_cur, h_prev, c_prev, c_alt, step, probe,
          x_batch, y_batch, op, lanes, full, ret,
          args, pc, layers, rng_calls, outcome>>

cellVars == <<x_cur, h_prev, c_prev, c_alt, step, probe>>
batchVars == <<x_batch, y_batch, op, lanes, full, ret>>
initVars == <<args, pc, layers, rng_calls, outcome>>

(***************************************************************************)
(* Bounds                                                                  *)
(***************************************************************************)
MaxDim == 2
MaxT == 2
MaxBatch == 2
MaxLayers == 2

(***************************************************************************)
(* Arithmetic of jax.numpy arrays, in quarters.                            *)
(***************************************************************************)
One == 4

Abs(n) == IF n < 0 THEN -n ELSE n

Sgn(n) == IF n < 0 THEN -1 ELSE IF n = 0 THEN 0 ELSE 1

\* a * b, rounded to the nearest quarter
FxMul(a, b) ==
    CHOOSE q \in {Sgn(n) * ((2 * Abs(n) + One) \div (2 * One)) : n \in {a * b}} : TRUE

\* sigmoid(z) rounded to the nearest quarter: sigmoid(0) = 1/2
SigmoidQ(z) ==
    IF z <= -8 THEN 0
    ELSE IF z <= -3 THEN 1
    ELSE IF z <= 2 THEN 2
    ELSE IF z <= 7 THEN 3
    ELSE 4

\* tanh(z) rounded to the nearest quarter: odd, tanh(0) = 0
TanhQ(z) ==
    Sgn(z) * (IF Abs(z) <= 2 THEN Abs(z) ELSE IF Abs(z) <= 5 THEN 3 ELSE 4)

Ok(v) == [ok |-> TRUE, v |-> v]

ShapeError == [ok |-> FALSE, v |-> <<>>]

RECURSIVE Dot(_, _)
Dot(row, v) ==
    IF row = <<>> THEN 0
    ELSE FxMul(Head(row), Head(v)) + Dot(Tail(row), Tail(v))

\* The array operations take their arguments by value: each binds its
\* arguments once, as the elements of one-element sets.

\* W @ x, for a matrix W and a column vector x
MatMul(W, x) ==
    CHOOSE y \in {IF a.ok /\ \A r \in 1..Len(W) : Len(W[r]) = Len(a.v)
                  THEN Ok([r \in 1..Len(W) |-> Dot(W[r], a.v)])
                  ELSE ShapeError : a \in {x}} : TRUE

\* the broadcast shape of two column vectors, 0 when they do not broadcast
BroadcastLen(m, n) ==
    IF m = n THEN m ELSE IF m = 1 THEN n ELSE IF n = 1 THEN m ELSE 0

Broadcasts(m, n) == m = n \/ BroadcastLen(m, n) > 0

At(v, j) == IF Len(v) = 1 THEN v[1] ELSE v[j]

\* x + y, elementwise with broadcasting
Add(x, y) ==
    CHOOSE z \in {IF a.ok /\ b.ok /\ Broadcasts(Len(a.v), Len(b.v))
                  THEN Ok([j \in 1..BroadcastLen(Len(a.v), Len(b.v)) |->
                              At(a.v, j) + At(b.v, j)])
                  ELSE ShapeError : a \in {x}, b \in {y}} : TRUE

\* x * y, elementwise with broadcasting
Mul(x, y) ==
    CHOOSE z \in {IF a.ok /\ b.ok /\ Broadcasts(Len(a.v), Len(b.v))
                  THEN Ok([j \in 1..BroadcastLen(Len(a.v), Len(b.v)) |->
                              FxMul(At(a.v, j), At(b.v, j))])
                  ELSE ShapeError : a \in {x}, b \in {y}} : TRUE

sigmoid(x) ==
    CHOOSE z \in {IF a.ok THEN Ok([j \in 1..Len(a.v) |-> SigmoidQ(a.v[j])])
                  ELSE ShapeError : a \in {x}} : TRUE

jnp_tanh(x) ==
    CHOOSE z \in {IF a.ok THEN Ok([j \in 1..Len(a.v) |-> TanhQ(a.v[j])])
                  ELSE ShapeError : a \in {x}} : TRUE

\* jnp.concatenate([x, y, z], axis=0)
Concatenate(x, y, z) ==
    CHOOSE w \in {IF a.ok /\ b.ok /\ c.ok THEN Ok(a.v \o b.v \o c.v)
                  ELSE ShapeError : a \in {x}, b \in {y}, c \in {z}} : TRUE

\* jnp.zeros(shape=(n, 1))
Zeros(n) == Ok([j \in 1..n |-> 0])

(***************************************************************************)
(* class LSTM: gates and Cell Step                                         *)
(***************************************************************************)
LSTM_f_cur(p, x, h) ==
    sigmoid(Add(Add(MatMul(p.uf, h), MatMul(p.wf, x)), Ok(p.bf)))

LSTM_i_cur(p, x, h) ==
    sigmoid(Add(Add(MatMul(p.ui, h), MatMul(p.wi, x)), Ok(p.bi)))

LSTM_c_cur_hat(p, x, h) ==
    jnp_tanh(Add(Add(MatMul(p.uc, h), MatMul(p.wc, x)), Ok(p.bc)))

\* a c_cur that adds the input gate without the candidate
LSTM_c_cur_no_candidate(p, x, h, c) ==
    Add(Mul(LSTM_f_cur(p, x, h), c), LSTM_i_cur(p, x, h))

LSTM_c_cur(p, x, h, c) ==
    LET i_t == LSTM_i_cur(p, x, h)
        c_t_hat == LSTM_c_cur_hat(p, x, h)
        f_t == LSTM_f_cur(p, x, h)
    IN  Add(Mul(f_t, c), Mul(i_t, c_t_hat))

LSTM_o_cur(p, x, h) ==
    sigmoid(Add(Add(MatMul(p.uo, h), MatMul(p.wo, x)), Ok(p.bo)))

\* returns the pair (h_t, c_t)
LSTM_h_cur(p, x, h, c) ==
    LET o_t == LSTM_o_cur(p, x, h)
    IN  CHOOSE hc \in {<<Mul(o_t, jnp_tanh(c_t)), c_t>> :
                          c_t \in {LSTM_c_cur(p, x, h, c)}} : TRUE

\* the scan body: tup = (params, h_prev, c_prev); returns ((params, h_t, c_t), out_t)
LSTM_forward(tup, x) ==
    LET p == tup[1]
    IN  CHOOSE r \in {<<<<p, hc[1], hc[2]>>, MatMul(p.wout, hc[1])>> :
                         hc \in {LSTM_h_cur(p, x, tup[2], tup[3])}} : TRUE

(***************************************************************************)
(* class PeepholeLSTM(LSTM): gates and Cell Step.  c_cur, c_cur_hat and    *)
(* init_params are not overridden and are LSTM's.                          *)
(***************************************************************************)
PeepholeLSTM_f_cur(p, x, h, c) ==
    sigmoid(Add(MatMul(p.wf, Concatenate(c, h, x)), Ok(p.bf)))

PeepholeLSTM_i_cur(p, x, h, c) ==
    sigmoid(Add(MatMul(p.wi, Concatenate(c, h, x)), Ok(p.bi)))

PeepholeLSTM_o_cur(p, x, h, c_cur) ==
    sigmoid(Add(MatMul(p.wo, Concatenate(c_cur, h, x)), Ok(p.bo)))

PeepholeLSTM_c_cur(p, x, h, c) == LSTM_c_cur(p, x, h, c)

\* an h_cur whose output gate reads the previous cell state
PeepholeLSTM_h_cur_on_c_prev(p, x, h, c, c_t) ==
    Mul(PeepholeLSTM_o_cur(p, x, h, c), jnp_tanh(PeepholeLSTM_c_cur(p, x, h, c)))

PeepholeLSTM_h_cur(p, x, h, c, c_t) ==
    Mul(PeepholeLSTM_o_cur(p, x, h, c_t), jnp_tanh(PeepholeLSTM_c_cur(p, x, h, c)))

\* returns (c_t, o_t, h_t)
PeepholeLSTM_forward(p, x, h, c, wout) ==
    CHOOSE r \in UNION {{<<c_t, MatMul(wout, h_t), h_t>> :
                               h_t \in {PeepholeLSTM_h_cur(p, x, h, c, c_t)}} :
                           c_t \in {PeepholeLSTM_c_cur(p, x, h, c)}} : TRUE

(***************************************************************************)
(* Inputs: parameter sets, states and input vectors, filled with one value *)
(***************************************************************************)
Mat(n, m, v) == [r \in 1..n |-> [c \in 1..m |-> v]]

Vec(n, v) == [j \in 1..n |-> v]

Variants == {"vanilla", "peephole"}

Archis == [input_dim : 1..MaxDim, hidden_dim : 1..MaxDim, output_dim : 1..MaxDim]

\* "init": the shapes LSTM.init_params gives every W (hidden x input);
\* "mixed": wo is hidden x (2 hidden + input), as PeepholeLSTM.o_cur multiplies it;
\* "peephole": wf, wi and wo are all hidden x (2 hidden + input).
ShapeKinds == {"init", "mixed", "peephole"}

WideCols(a) == a.hidden_dim + a.hidden_dim + a.input_dim

LSTMParams(a, kind, f, i, o, b) ==
    LET h == a.hidden_dim
        n == a.input_dim
        fi == IF kind = "peephole" THEN WideCols(a) ELSE n
        oc == IF kind = "init" THEN n ELSE WideCols(a)
    IN  [wf |-> Mat(h, fi, f), uf |-> Mat(h, h, f), bf |-> Vec(h, b),
         wi |-> Mat(h, fi, i), ui |-> Mat(h, h, i), bi |-> Vec(h, b),
         wc |-> Mat(h, n, One), uc |-> Mat(h, h, One), bc |-> Vec(h, b),
         wo |-> Mat(h, oc, o), uo |-> Mat(h, h, o), bo |-> Vec(h, b),
         wout |-> Mat(a.output_dim, h, One)]

ParamSets(a, kind) ==
    {LSTMParams(a, kind, f, i, o, b) :
        f \in {-One, One}, i \in {-One, One}, o \in {0, One}, b \in {0, One}}

StateVals == {-One, 0, One}

InputVals == {0, One}

NoStep == [done |-> FALSE, h |-> ShapeError, c |-> ShapeError, out |-> ShapeError]

NoProbe == [done |-> FALSE, c_alt |-> ShapeError, h |-> ShapeError]

NoCall == [name |-> "none", pc |-> "idle"]

NoReturn == [call |-> "none", status |-> "none", value |-> <<>>, params_in |-> <<>>]

CellIdle ==
    /\ x_cur = <<>> /\ h_prev = <<>> /\ c_prev = <<>> /\ c_alt = <<>>
    /\ step = NoStep /\ probe = NoProbe

BatchIdle ==
    /\ x_batch = <<>> /\ y_batch = <<>> /\ op = NoCall
    /\ lanes = <<>> /\ full = <<>> /\ ret = NoReturn

ConstructIdle ==
    /\ args = <<>> /\ pc = "none" /\ layers = <<>> /\ rng_calls = 0
    /\ outcome = "none"

(***************************************************************************)
(* SpecCell: the Cell Step of either class called directly on one          *)
(* (x_cur, h_prev, c_prev).                                                *)
(***************************************************************************)
InitCell ==
    /\ variant \in Variants
    /\ archi \in Archis
    /\ \E kind \in ShapeKinds :
          /\ variant = "vanilla" => kind = "init"
          /\ params \in ParamSets(archi, kind)
    /\ x_cur \in {Vec(archi.input_dim, v) : v \in InputVals}
    /\ h_prev \in {Vec(archi.hidden_dim, v) : v \in {0, One}}
    /\ c_prev \in {Vec(archi.hidden_dim, v) : v \in {0, One}}
    /\ c_alt = <<>>
    /\ step = NoStep
    /\ probe = NoProbe
    /\ BatchIdle
    /\ ConstructIdle

\* LSTM.forward((params, h_prev, c_prev), x_cur)
CellStepVanilla ==
    /\ variant = "vanilla"
    /\ ~step.done
    /\ \E r \in {LSTM_forward(<<params, Ok(h_prev), Ok(c_prev)>>, Ok(x_cur))} :
          step' = [done |-> TRUE, h |-> r[1][2], c |-> r[1][3], out |-> r[2]]
    /\ UNCHANGED <<variant, archi, params, x_cur, h_prev, c_prev, c_alt, probe>>
    /\ UNCHANGED batchVars
    /\ UNCHANGED initVars

\* PeepholeLSTM.forward(params, x_cur, h_prev, c_prev, params.wout)
CellStepPeephole ==
    /\ variant = "peephole"
    /\ ~step.done
    /\ \E r \in {PeepholeLSTM_forward(params, Ok(x_cur), Ok(h_prev), Ok(c_prev),
                                       params.wout)} :
          step' = [done |-> TRUE, h |-> r[3], c |-> r[1], out |-> r[2]]
    /\ UNCHANGED <<variant, archi, params, x_cur, h_prev, c_prev, c_alt, probe>>
    /\ UNCHANGED batchVars
    /\ UNCHANGED initVars

\* PeepholeLSTM.h_cur(params, x_cur, h_prev, c_prev, c_t) with another c_t
ProbeHCur ==
    /\ variant = "peephole"
    /\ step.done
    /\ ~probe.done
    /\ \E v \in StateVals :
          /\ c_alt' = Vec(archi.hidden_dim, v)
          /\ probe' = [done |-> TRUE, c_alt |-> Ok(c_alt'),
                       h |-> PeepholeLSTM_h_cur(params, Ok(x_cur), Ok(h_prev),
                                                Ok(c_prev), Ok(c_alt'))]
    /\ UNCHANGED <<variant, archi, params, x_cur, h_prev, c_prev, step>>
    /\ UNCHANGED batchVars
    /\ UNCHANGED initVars

NextCell == CellStepVanilla \/ CellStepPeephole \/ ProbeHCur

SpecCell == InitCell /\ [][NextCell]_vars

(***************************************************************************)
(* Sequence scan, batch, loss and gradient                                 *)
(***************************************************************************)
\* number of parameters of the LSTM methods the PeepholeLSTM methods call
LSTM_forward_nparams == 2
LSTM_forward_full_nparams == 3
LSTM_forward_batch_nparams == 3
LSTM_mse_nparams == 4

\* a Python call with nargs positional arguments to a function of nparams
\* parameters without defaults raises TypeError unless they agree
ArityError(nparams, nargs) == nargs # nparams

\* an (n, 1) array as it is stacked into the output: n rows of one entry
Column(v) == [j \in 1..Len(v) |-> <<v[j]>>]

Raised(calls) == \E t \in 1..Len(calls) : ~calls[t].out.ok

\* PeepholeLSTM.forward_full(params, x_in): the loop over the time steps
\* calls LSTM.forward with five arguments in its first iteration, so it
\* makes no Cell Step and returns only the empty jnp.array([]) of an empty
\* sequence.  (The reads of params.hidden_dim and params.output_dim, of a
\* container declared outside this file, are taken to succeed.)
PeepholeLSTM_forward_full(p, x_in) ==
    LET time_steps == Len(x_in[1])
    IN  IF time_steps > 0 /\ ArityError(LSTM_forward_nparams, 5)
        THEN [status |-> "TypeError", out |-> <<>>, calls |-> <<>>]
        ELSE [status |-> "returned", out |-> <<>>, calls |-> <<>>]

\* jnp.squeeze(batched, axis=3) of a (B, T, output_dim, 1) array
Squeeze3(batched) ==
    [k \in 1..Len(batched) |->
        [t \in 1..Len(batched[k]) |->
            [j \in 1..Len(batched[k][t]) |-> batched[k][t][j][1]]]]

RECURSIVE Sum(_)
Sum(xs) == IF xs = <<>> THEN 0 ELSE Head(xs) + Sum(Tail(xs))

RECURSIVE Flatten(_)
Flatten(ss) == IF ss = <<>> THEN <<>> ELSE Head(ss) \o Flatten(Tail(ss))

\* all the numbers of a (B, T, output_dim) array, in order
Ravel(a) == Flatten(Flatten(a))

NaN == [nan |-> TRUE, v |-> 0]

\* jnp.mean of a list of numbers: nan for an empty array
jnp_mean(xs) ==
    IF xs = <<>> THEN NaN
    ELSE CHOOSE m \in {[nan |-> FALSE,
                        v |-> Sgn(total) * ((2 * Abs(total) + n) \div (2 * n))] :
                          total \in {Sum(xs)}, n \in {Len(xs)}} : TRUE

\* (batch_out - y_batch) ** 2 of two arrays of the same shape, ravelled
SquaredError(batch_out, y) ==
    CHOOSE e \in {[n \in 1..Len(a) |-> FxMul(a[n] - b[n], a[n] - b[n])] :
                     a \in {Ravel(batch_out)}, b \in {Ravel(y)}} : TRUE

\* the value LSTM.mse returns once forward_batch has returned batch_out
LSTM_mse(batch_out, y) ==
    CHOOSE m \in {jnp_mean(e) : e \in {SquaredError(batch_out, y)}} : TRUE

\* the value PeepholeLSTM.mse returns once forward_batch has returned
PeepholeLSTM_mse(batch_out, y) ==
    CHOOSE s \in {[nan |-> m.nan, v |-> m.v * 100] :
                     m \in {LSTM_mse(batch_out, y)}} : TRUE

ParamNames ==
    {"wf", "uf", "bf", "wi", "ui", "bi", "wc", "uc", "bc", "wo", "uo", "bo", "wout"}

BiasNames == {"bf", "bi", "bc", "bo"}

\* the shape of a parameter array; the biases are (hidden_dim, 1)
ShapeOf(p, name) ==
    IF name \in BiasNames THEN <<Len(p[name]), 1>>
    ELSE <<Len(p[name]), Len(p[name][1])>>

\* jax.jacfwd / jax.jacobian: the derivative of an output of shape
\* out_shape by an argument of shape in_shape has shape out_shape + in_shape
JacobianShape(out_shape, in_shape) == out_shape \o in_shape

\* LSTM.backward: jacfwd of the scalar mse by argument 1 (params), a
\* one-element tuple holding one array per parameter
LSTM_backward(p) ==
    <<[name \in ParamNames |-> JacobianShape(<<>>, ShapeOf(p, name))]>>

(***************************************************************************)
(* Spec: the caller's calls of forward_full on single sequences and of     *)
(* forward_batch, mse and backward on the batch, one call at a time.  A    *)
(* vanilla call runs one scan per sequence; the scans of a vmapped call    *)
(* advance in any order.                                                   *)
(***************************************************************************)
BatchParamSets(a) ==
    {LSTMParams(a, "init", One, i, One, b) : i \in {-One, One}, b \in {0, One}}

\* all sequences of T input vectors
InputSequences(T, n) == [1..T -> {Vec(n, v) : v \in InputVals}]

NotRun == [status |-> "none", out |-> <<>>, calls |-> <<>>]

Init ==
    /\ variant \in Variants
    /\ archi \in Archis
    /\ params \in BatchParamSets(archi)
    /\ \E B \in 1..MaxBatch, T \in 0..MaxT, yv \in {0, One} :
          /\ x_batch \in [1..B -> {<<xs>> : xs \in InputSequences(T, archi.input_dim)}]
          /\ y_batch = [k \in 1..B |-> [t \in 1..T |-> Vec(archi.output_dim, yv)]]
          /\ full = [k \in 1..B |-> NotRun]
    /\ op = NoCall
    /\ lanes = <<>>
    /\ ret = NoReturn
    /\ CellIdle
    /\ ConstructIdle

\* h, c = jnp.zeros((hidden_dim, 1)), jnp.zeros((hidden_dim, 1)): the carry
\* a scan starts from, with the list of the LSTM.forward calls it has made
FreshScan == [h |-> Zeros(archi.hidden_dim), c |-> Zeros(archi.hidden_dim), calls |-> <<>>]

\* the caller runs forward_full alone on sequence k: LSTM's starts a scan,
\* PeepholeLSTM's runs its loop
CallForwardFull(k) ==
    /\ op.pc # "scan"
    /\ full[k].status = "none"
    /\ IF variant = "vanilla"
       THEN /\ op' = [name |-> "forward_full", pc |-> "scan"]
            /\ lanes' = [j \in {k} |-> FreshScan]
            /\ full' = full
       ELSE /\ full' = [full EXCEPT ![k] =
                           PeepholeLSTM_forward_full(params, x_batch[k])]
            /\ UNCHANGED <<op, lanes>>
    /\ UNCHANGED <<variant, archi, params, x_batch, y_batch, ret>>
    /\ UNCHANGED cellVars
    /\ UNCHANGED initVars

\* a batch-level call begins: it raises TypeError at its first inner call
\* when that call's arguments do not fit, else one scan per sequence starts
\* from its own zero state
Begin(name, raises) ==
    /\ op.pc # "scan"
    /\ ret.status = "none"
    /\ IF raises
       THEN /\ op' = [name |-> name, pc |-> "done"]
            /\ ret' = [call |-> name, status |-> "TypeError", value |-> <<>>,
                       params_in |-> params]
            /\ lanes' = lanes
       ELSE /\ op' = [name |-> name, pc |-> "scan"]
            /\ ret' = [call |-> name, status |-> "running", value |-> <<>>,
                       params_in |-> params]
            /\ lanes' = [k \in 1..Len(x_batch) |-> FreshScan]
    /\ UNCHANGED <<variant, archi, params, x_batch, y_batch, full>>
    /\ UNCHANGED cellVars
    /\ UNCHANGED initVars

\* forward_batch: LSTM's vmaps LSTM.forward_full over (archi_params, params,
\* x_batch); PeepholeLSTM's vmaps LSTM.forward_full over (params, x_batch)
CallForwardBatch ==
    Begin("forward_batch",
          ArityError(LSTM_forward_full_nparams, IF variant = "vanilla" THEN 3 ELSE 2))

\* mse: LSTM's calls LSTM.forward_batch(archi_params, params, x_batch);
\* PeepholeLSTM's calls LSTM.forward_batch(params, x_batch)
CallMse ==
    Begin("mse",
          ArityError(LSTM_forward_batch_nparams, IF variant = "vanilla" THEN 3 ELSE 2))

\* backward: LSTM's differentiates LSTM.mse at (archi_params, params,
\* x_batch, y_batch); PeepholeLSTM's at (params, x_batch, y_batch)
CallBackward ==
    Begin("backward",
          ArityError(LSTM_mse_nparams, IF variant = "vanilla" THEN 4 ELSE 3))

\* one iteration of jax.lax.scan(LSTM.forward, (params, h, c), x_in[0]) on
\* sequence k: the carry goes in, the new carry and out_t come out
LaneStep(k) ==
    /\ op.pc = "scan"
    /\ Len(lanes[k].calls) < Len(x_batch[k][1])
    /\ \E x \in {x_batch[k][1][Len(lanes[k].calls) + 1]} :
       \E r \in {LSTM_forward(<<params, lanes[k].h, lanes[k].c>>, Ok(x))} :
           lanes' = [lanes EXCEPT ![k] =
                        [h |-> r[1][2], c |-> r[1][3],
                         calls |-> Append(@.calls,
                                     [h_in |-> lanes[k].h, c_in |-> lanes[k].c, x |-> x,
                                      h_out |-> r[1][2], c_out |-> r[1][3], out |-> r[2]])]]
    /\ UNCHANGED <<variant, archi, params, x_batch, y_batch, op, full, ret>>
    /\ UNCHANGED cellVars
    /\ UNCHANGED initVars

\* the stacked outputs out_ls of a finished scan
OutLs(lane) == [t \in 1..Len(lane.calls) |-> Column(lane.calls[t].out.v)]

\* every scan of the call is over.  forward_full returns out_ls; a batch
\* call stacks and squeezes the outputs, and mse and backward go on from them
Return ==
    /\ op.pc = "scan"
    /\ \A k \in DOMAIN lanes : Len(lanes[k].calls) = Len(x_batch[k][1])
    /\ op' = [op EXCEPT !.pc = "done"]
    /\ IF op.name = "forward_full"
       THEN /\ full' = [k \in DOMAIN full |->
                          IF k \notin DOMAIN lanes THEN full[k]
                          ELSE IF Raised(lanes[k].calls)
                          THEN [status |-> "ShapeError", out |-> <<>>,
                                calls |-> lanes[k].calls]
                          ELSE [status |-> "returned", out |-> OutLs(lanes[k]),
                                calls |-> lanes[k].calls]]
            /\ ret' = ret
       ELSE /\ full' = full
            /\ ret' =
                 IF \E k \in DOMAIN lanes : Raised(lanes[k].calls)
                 THEN [ret EXCEPT !.status = "ShapeError"]
                 ELSE CHOOSE v \in
                        {[call |-> ret.call, status |-> "returned",
                          params_in |-> ret.params_in,
                          value |->
                            CASE op.name = "forward_batch" -> batch_out
                              [] op.name = "mse" ->
                                   IF variant = "vanilla"
                                   THEN LSTM_mse(batch_out, y_batch)
                                   ELSE PeepholeLSTM_mse(batch_out, y_batch)
                              [] op.name = "backward" -> LSTM_backward(params)] :
                           batch_out \in
                             {Squeeze3([k \in 1..Len(x_batch) |-> OutLs(lanes[k])])}} : TRUE
    /\ UNCHANGED <<variant, archi, params, x_batch, y_batch, lanes>>
    /\ UNCHANGED cellVars
    /\ UNCHANGED initVars

Next ==
    \/ \E k \in 1..Len(x_batch) : CallForwardFull(k)
    \/ CallForwardBatch
    \/ CallMse
    \/ CallBackward
    \/ \E k \in DOMAIN lanes : LaneStep(k)
    \/ Return

Spec == Init /\ [][Next]_vars

(***************************************************************************)
(* Claims about the scan, the batch, the loss and the gradient (checked    *)
(* under Spec)                                                             *)
(***************************************************************************)
SeqLen(k) == Len(x_batch[k][1])

Ran(k) == full[k].status # "none"

\* the calls of a scan so far were each given the zero state (the first) or
\* the state the call before returned
Threaded(calls) ==
    \A t \in 1..Len(calls) :
        IF t = 1
        THEN /\ calls[t].h_in = Zeros(archi.hidden_dim)
             /\ calls[t].c_in = Zeros(archi.hidden_dim)
        ELSE /\ calls[t].h_in = calls[t - 1].h_out
             /\ calls[t].c_in = calls[t - 1].c_out

\* C1: for both variants and every sequence of T >= 1 timesteps, the Cell
\* Step at timestep 1 receives the zero state and the Cell Step at each
\* timestep t in 2..T receives the state timestep t-1 produced; no other
\* state is ever fed to a Cell Step.
C1_StateThreading ==
    /\ \A k \in DOMAIN full :
          (Ran(k) /\ SeqLen(k) >= 1) =>
              /\ Len(full[k].calls) = SeqLen(k)
              /\ Threaded(full[k].calls)
    /\ \A k \in DOMAIN lanes : Threaded(lanes[k].calls)

\* C1 holds of class LSTM
VanillaStateThreading == variant = "vanilla" => C1_StateThreading

\* C2: forward_full returns exactly T outputs, the output at index t being
\* Wout . h_t of the Cell Step that consumed x_t; for T = 0 it returns the
\* empty sequence.
C2_OutputsInOrder ==
    \A k \in DOMAIN full :
        Ran(k) =>
            /\ full[k].status = "returned"
            /\ Len(full[k].out) = SeqLen(k)
            /\ Len(full[k].calls) = SeqLen(k)
            /\ \A t \in 1..SeqLen(k) :
                  /\ full[k].calls[t].x = x_batch[k][1][t]
                  /\ full[k].out[t] =
                        Column(MatMul(params.wout, full[k].calls[t].h_out).v)

\* C2 holds of class LSTM
VanillaOutputsInOrder == variant = "vanilla" => C2_OutputsInOrder

\* out_ls of one sequence with its trailing axis of length 1 dropped
SqueezeOut(out) == [t \in 1..Len(out) |-> [j \in 1..Len(out[t]) |-> out[t][j][1]]]

\* C3: the k-th output sequence forward_batch returns equals the output of
\* forward_full run alone on the k-th sequence, index-aligned with the
\* batch, in whatever order the scans ran.
C3_BatchIndependence ==
    (ret.call = "forward_batch" /\ ret.status # "running") =>
        /\ ret.status = "returned"
        /\ Len(ret.value) = Len(x_batch)
        /\ \A k \in DOMAIN full :
              Ran(k) => /\ full[k].status = "returned"
                        /\ ret.value[k] = SqueezeOut(full[k].out)

\* C3 holds of class LSTM
VanillaBatchIndependence == variant = "vanilla" => C3_BatchIndependence

AllRan == \A k \in DOMAIN full : full[k].status = "returned"

Predicted == [k \in DOMAIN full |-> SqueezeOut(full[k].out)]

\* C6: for both variants mse returns the mean over all (sequence, timestep,
\* output-dim) elements of (predicted - target)^2 with no further scaling:
\* never negative, and 0 when predicted equals target.
C6_LossIsMeanSquaredError ==
    (ret.call = "mse" /\ ret.status # "running") =>
        /\ ret.status = "returned"
        /\ ret.value.v >= 0
        /\ AllRan =>
              /\ ret.value = jnp_mean(SquaredError(Predicted, y_batch))
              /\ (Predicted = y_batch /\ ~ret.value.nan) => ret.value.v = 0

\* C6 holds of class LSTM
VanillaLossIsMeanSquaredError == variant = "vanilla" => C6_LossIsMeanSquaredError

\* C7: backward returns, for every parameter tensor, exactly one gradient
\* tensor of the same shape, and leaves the parameters passed in unchanged.
C7_GradientShapes ==
    (ret.call = "backward" /\ ret.status # "running") =>
        /\ ret.status = "returned"
        /\ Len(ret.value) = 1
        /\ DOMAIN ret.value[1] = ParamNames
        /\ \A name \in ParamNames : ret.value[1][name] = ShapeOf(params, name)
        /\ params = ret.params_in

\* C7 holds of class LSTM
VanillaGradientShapes == variant = "vanilla" => C7_GradientShapes

(***************************************************************************)
(* Claims about the Cell Step (checked under SpecCell)                     *)
(***************************************************************************)
PeepholeStepDone == variant = "peephole" /\ step.done /\ step.out.ok

OutputGateOn(c) == PeepholeLSTM_o_cur(params, Ok(x_cur), Ok(h_prev), c)

C5_PeepholeGatesUpdateCell ==
    PeepholeStepDone =>
        step.c = Add(Mul(PeepholeLSTM_f_cur(params, Ok(x_cur), Ok(h_prev), Ok(c_prev)),
                         Ok(c_prev)),
                     Mul(PeepholeLSTM_i_cur(params, Ok(x_cur), Ok(h_prev), Ok(c_prev)),
                         LSTM_c_cur_hat(params, Ok(x_cur), Ok(h_prev))))

\* what the code does instead: the peephole cell state is built from the
\* standard gates, which do not read c_prev
C5_StandardGatesUpdateCell ==
    PeepholeStepDone =>
        step.c = Add(Mul(LSTM_f_cur(params, Ok(x_cur), Ok(h_prev)), Ok(c_prev)),
                     Mul(LSTM_i_cur(params, Ok(x_cur), Ok(h_prev)),
                         LSTM_c_cur_hat(params, Ok(x_cur), Ok(h_prev))))

ZeroBiases ==
    /\ params.bf = Vec(archi.hidden_dim, 0)
    /\ params.bi = Vec(archi.hidden_dim, 0)
    /\ params.bc = Vec(archi.hidden_dim, 0)
    /\ params.bo = Vec(archi.hidden_dim, 0)

FromZeroOnZero ==
    /\ x_cur = Vec(archi.input_dim, 0)
    /\ h_prev = Vec(archi.hidden_dim, 0)
    /\ c_prev = Vec(archi.hidden_dim, 0)

\* C10: with all biases zero, the Cell Step from the zero state on a zero
\* input yields c_1 = 0, h_1 = 0 and the output Wout . 0 = 0, whatever the
\* weight matrices are.
C10_ZeroInputLaw ==
    (step.done /\ step.out.ok /\ ZeroBiases /\ FromZeroOnZero) =>
        /\ step.c = Zeros(archi.hidden_dim)
        /\ step.h = Zeros(archi.hidden_dim)
        /\ step.out = Zeros(archi.output_dim)

C10_Witness ==
    /\ variant = "vanilla"
    /\ step.done
    /\ step.out.ok
    /\ ZeroBiases
    /\ FromZeroOnZero
    /\ archi.hidden_dim > 1
    /\ params.wf # params.wi

(***************************************************************************)
(* SpecConstruct: LSTMModel.init_params(input_dim, hidden_dim, output_dim, *)
(* num_lstm, lstm_type), one statement at a time.  The parameter arrays    *)
(* are random; only their shapes are kept.                                 *)
(***************************************************************************)
DimRange == (0 - 1)..MaxDim

Selectors == {"vanilla", "peephole", "standard", "gru"}

\* rng_normal(key, shape) draws an array of the shape: zero-sized arrays
\* exist, a negative dimension is refused
rng_normal_accepts(shape) == \A j \in 1..Len(shape) : shape[j] >= 0

\* the shapes LSTM.init_params asks rng_normal for, in order:
\* wf, uf, bf, wi, ui, bi, wc, uc, bc, wo, uo, bo, wout
InitShapes(n, h, o) ==
    << <<h, n>>, <<h, h>>, <<h, 1>>, <<h, n>>, <<h, h>>, <<h, 1>>,
       <<h, n>>, <<h, h>>, <<h, 1>>, <<h, n>>, <<h, h>>, <<h, 1>>, <<o, h>> >>

\* LSTM.init_params(seed, input_dim, hidden_dim, output_dim): checks
\* nothing itself; raises only if an rng_normal call does
LSTM_init_params(n, h, o) ==
    LET shapes == InitShapes(n, h, o)
        refused == {j \in 1..Len(shapes) : ~rng_normal_accepts(shapes[j])}
    IN  IF refused = {}
        THEN [raised |-> FALSE, rng |-> Len(shapes),
              value |-> <<[input_dim |-> n, hidden_dim |-> h, output_dim |-> o], shapes>>]
        ELSE [raised |-> TRUE,
              rng |-> CHOOSE j \in refused : \A i \in refused : j <= i,
              value |-> <<>>]

\* an if / elif / else that takes every unknown selector for "vanilla"
LayerClassDefaultingToVanilla(lstm_type) ==
    IF lstm_type = "peephole" THEN "PeepholeLSTM" ELSE "LSTM"

\* the if / elif / else of LSTMModel.init_params: the class whose
\* init_params builds the layers, or the ValueError
LayerClass(lstm_type) ==
    IF lstm_type = "vanilla" THEN "LSTM"
    ELSE IF lstm_type = "peephole" THEN "PeepholeLSTM"
    ELSE "ValueError"

NoOutcome == [status |-> "none", value |-> <<>>]

InitConstruct ==
    /\ args \in [input_dim : DimRange, hidden_dim : DimRange, output_dim : DimRange,
                 num_lstm : 0..MaxLayers, lstm_type : Selectors]
    /\ pc = "assert"
    /\ layers = <<>>
    /\ rng_calls = 0
    /\ outcome = NoOutcome
    /\ variant = "none" /\ archi = <<>> /\ params = <<>>
    /\ CellIdle
    /\ BatchIdle

\* assert num_lstm >= 1, "num_lstm must be >= 1"
AssertNumLstm ==
    /\ pc = "assert"
    /\ IF args.num_lstm >= 1
       THEN pc' = "select" /\ outcome' = outcome
       ELSE pc' = "raised" /\ outcome' = [status |-> "AssertionError", value |-> <<>>]
    /\ UNCHANGED <<args, layers, rng_calls>>
    /\ UNCHANGED <<variant, archi, params>>
    /\ UNCHANGED cellVars
    /\ UNCHANGED batchVars

\* if lstm_type == "vanilla" ... elif lstm_type == "peephole" ... else raise
SelectLayerClass ==
    /\ pc = "select"
    /\ IF LayerClass(args.lstm_type) = "ValueError"
       THEN pc' = "raised" /\ outcome' = [status |-> "ValueError", value |-> <<>>]
       ELSE pc' = "layers" /\ outcome' = outcome
    /\ UNCHANGED <<args, layers, rng_calls>>
    /\ UNCHANGED <<variant, archi, params>>
    /\ UNCHANGED cellVars
    /\ UNCHANGED batchVars

\* one element of the list comprehension: LSTM.init_params (PeepholeLSTM
\* inherits it) builds one layer
InitLayer ==
    /\ pc = "layers"
    /\ Len(layers) < args.num_lstm
    /\ \E r \in {LSTM_init_params(args.input_dim, args.hidden_dim, args.output_dim)} :
          /\ rng_calls' = rng_calls + r.rng
          /\ IF r.raised
             THEN /\ pc' = "raised"
                  /\ outcome' = [status |-> "rng_normal error", value |-> <<>>]
                  /\ layers' = layers
             ELSE /\ pc' = pc
                  /\ outcome' = outcome
                  /\ layers' = Append(layers, r.value)
    /\ UNCHANGED args
    /\ UNCHANGED <<variant, archi, params>>
    /\ UNCHANGED cellVars
    /\ UNCHANGED batchVars

\* return LSTMModelParams(num_lstm, lstm_type, layers)
ReturnModel ==
    /\ pc = "layers"
    /\ Len(layers) = args.num_lstm
    /\ pc' = "returned"
    /\ outcome' = [status |-> "returned",
                   value |-> <<args.num_lstm, args.lstm_type, layers>>]
    /\ UNCHANGED <<args, layers, rng_calls>>
    /\ UNCHANGED <<variant, archi, params>>
    /\ UNCHANGED cellVars
    /\ UNCHANGED batchVars

NextConstruct == AssertNumLstm \/ SelectLayerClass \/ InitLayer \/ ReturnModel

SpecConstruct == InitConstruct /\ [][NextConstruct]_vars

(***************************************************************************)
(* Claims about construction (checked under SpecConstruct)                 *)
(***************************************************************************)
ValidSelectors == {"vanilla", "peephole"}

\* C8: for every selector other than the two valid variants,
\* LSTMModel.init_params ends with an error reported to the caller, before
\* any parameter initialisation starts, and returns no model parameters.
C8_InvalidSelectorRejected ==
    args.lstm_type \notin ValidSelectors =>
        /\ rng_calls = 0
        /\ layers = <<>>
        /\ pc \in {"assert", "select", "raised"}
        /\ pc \in {"assert", "select"} => ENABLED NextConstruct
        /\ pc = "raised" =>
              /\ outcome.status \in {"ValueError", "AssertionError"}
              /\ outcome.value = <<>>

\* an invalid selector, past the num_lstm assertion, raised the ValueError
C8_Witness ==
    /\ args.lstm_type \notin ValidSelectors
    /\ args.num_lstm >= 1
    /\ args.hidden_dim >= 1
    /\ pc = "raised"
    /\ outcome.status = "ValueError"

\* C9: whenever input_dim, hidden_dim or output_dim is <= 0, construction
\* is rejected with an error, and no model is returned.
C9_NonPositiveDimensionRejected ==
    (args.input_dim <= 0 \/ args.hidden_dim <= 0 \/ args.output_dim <= 0) =>
        pc # "returned"

====
